---- MODULE Spec2Model ----
(***************************************************************************)
(* Model of the traefik-lang-redirect middleware (lang_redirect.go).       *)
(*                                                                         *)
(* Go strings are modelled as sequences of one-character strings, so that  *)
(* strings.Split, strings.SplitN, strings.TrimSpace and the path           *)
(* concatenations are computed as the code computes them.  The empty Go    *)
(* string is the empty sequence.                                           *)
(*                                                                         *)
(* The request carries what the middleware reads or writes:                *)
(*   Header   - the values stored under "Accept-Language" (Go keeps a list *)
(*              of values per header name; Get reads the first, Set        *)
(*              replaces the list by one value);                           *)
(*   Path     - r.URL.Path;                                                *)
(*   RawQuery - r.URL.RawQuery as its sequence of key=value pairs          *)
(*              (percent-escaping is abstracted: url.ParseQuery and        *)
(*              Values.Encode are inverse on every value of the model).    *)
(* The response is the status written (0: nothing written) and the         *)
(* Location of a redirect.  http.Redirect is modelled as storing the url   *)
(* it is handed; every path of the model is absolute and free of "//",     *)
(* "." and ".." segments, on which http.Redirect does not alter it.        *)
(***************************************************************************)
EXTENDS Integers, Sequences, FiniteSets, TLC

VARIABLES
    config,            \* the *Config handed to New
    handler,           \* result of New: "nil" (not called), "ok", "err"
    active,            \* a request object exists
    r,                 \* the request object, mutated in place
    pre,               \* the request as it was when the last ServeHTTP began
    sent,              \* the Accept-Language values the client sends
    w,                 \* the response of the last ServeHTTP call
    nextCalls,         \* calls of g.next.ServeHTTP made by the last call
    wrote,             \* the last call performed strategy.SetLanguage
    languageByHeader,  \* the local of ServeHTTP, line 64
    runs,              \* ServeHTTP calls made on this request object
    hops               \* redirects the client has followed

vars == <<config, handler, active, r, pre, sent, w, nextCalls, wrote,
          languageByHeader, runs, hops>>

----------------------------------------------------------------------------
(* Bounds *)

MaxEntries == 2   \* comma-separated entries in a generated Accept-Language
MaxRuns == 2      \* ServeHTTP calls on one request object (chained instances)
MaxHops == 2      \* redirects a client follows

----------------------------------------------------------------------------
(* Program constants *)

StrategyHeader == "header"
StrategyPath == "path"
StrategyQuery == "query"

StatusFound == 302
StatusInternalServerError == 500

----------------------------------------------------------------------------
(* Strings of the model *)

EmptyString == <<>>
En == <<"e", "n">>
De == <<"d", "e">>
FrCA == <<"f", "r", "-", "C", "A">>
DeQ == <<" ", "d", "e", ";", "q", "=", "0", ".", "8">>
EnDe == <<"e", "n", ",", "d", "e">>
One == <<"1">>

Slash == <<"/">>
PathRoot == Slash
PathAbout == Slash \o <<"a", "b", "o", "u", "t">>
PathDe == Slash \o De
PathFrCA == Slash \o FrCA

----------------------------------------------------------------------------
(* Go library functions the code calls *)

RECURSIVE SplitAcc(_, _, _, _)
SplitAcc(s, sep, cur, acc) ==
    IF s = <<>> THEN Append(acc, cur)
    ELSE IF Head(s) = sep
         THEN SplitAcc(Tail(s), sep, <<>>, Append(acc, cur))
         ELSE SplitAcc(Tail(s), sep, Append(cur, Head(s)), acc)

\* strings.Split(s, sep) for a one-character sep: never empty, Split("") = [""]
Split(s, sep) == SplitAcc(s, sep, <<>>, <<>>)

RECURSIVE SplitN2First(_, _)
\* strings.SplitN(s, sep, 2)[0]: s up to its first sep
SplitN2First(s, sep) ==
    IF s = <<>> \/ Head(s) = sep THEN <<>>
    ELSE <<Head(s)>> \o SplitN2First(Tail(s), sep)

IsSpace(c) == c \in {" ", "\t"}

RECURSIVE TrimLeft(_)
TrimLeft(s) == IF s # <<>> /\ IsSpace(Head(s)) THEN TrimLeft(Tail(s)) ELSE s

RECURSIVE TrimRight(_)
TrimRight(s) ==
    IF s # <<>> /\ IsSpace(s[Len(s)]) THEN TrimRight(SubSeq(s, 1, Len(s) - 1)) ELSE s

\* strings.TrimSpace
TrimSpace(s) == TrimRight(TrimLeft(s))

\* http.Header.Get("Accept-Language"): the first value, "" when absent
HeaderGet(h) == IF h = <<>> THEN EmptyString ELSE h[1]

\* http.Header.Set("Accept-Language", v): replaces every value
HeaderSet(h, v) == <<v>>

\* r.URL.Query(): each key of the query string with its values, in order
URLQuery(raw) ==
    [k \in {raw[i].k : i \in DOMAIN raw} |->
        LET Pick(p) == p.k = k
            ps == SelectSeq(raw, Pick)
        IN [i \in 1..Len(ps) |-> ps[i].v]]

\* url.Values.Get: the first value of the key, "" when the key is absent
ValuesGet(vals, key) ==
    IF key \in DOMAIN vals /\ Len(vals[key]) > 0 THEN vals[key][1] ELSE EmptyString

\* url.Values.Set: the key now has exactly this value
ValuesSet(vals, key, v) ==
    [k \in (DOMAIN vals) \cup {key} |-> IF k = key THEN <<v>> ELSE vals[k]]

\* the keys of the model in sort.Strings order
KeyOrder == <<"", "lang", "lg", "z">>

RECURSIVE EncodeFrom(_, _)
EncodeFrom(vals, ks) ==
    IF ks = <<>> THEN <<>>
    ELSE (IF Head(ks) \in DOMAIN vals
          THEN [i \in 1..Len(vals[Head(ks)]) |->
                   [k |-> Head(ks), v |-> vals[Head(ks)][i]]]
          ELSE <<>>) \o EncodeFrom(vals, Tail(ks))

\* url.Values.Encode: key=value pairs, sorted by key
ValuesEncode(vals) == EncodeFrom(vals, KeyOrder)

\* r.URL.String(): the parts of the URL the model carries
URLString(req) == [Path |-> req.Path, RawQuery |-> req.RawQuery]

----------------------------------------------------------------------------
(* Helpers of lang_redirect.go *)

parseAcceptLanguage(acceptLanguage) ==
    LET parts == Split(acceptLanguage, ",")
    IN [i \in 1..Len(parts) |-> TrimSpace(SplitN2First(parts[i], ";"))]

RECURSIVE MatchSupported(_, _)
\* the inner loop: whether lang equals some element of the supported list
MatchSupported(lang, supported) ==
    IF supported = <<>> THEN FALSE
    ELSE IF lang = Head(supported) THEN TRUE
    ELSE MatchSupported(lang, Tail(supported))

RECURSIVE FirstSupported(_, _, _)
\* the outer loop over the header's languages
FirstSupported(languages, supported, default) ==
    IF languages = <<>> THEN default
    ELSE IF MatchSupported(Head(languages), supported) THEN Head(languages)
    ELSE FirstSupported(Tail(languages), supported, default)

RECURSIVE FirstSupportedByConfigOrder(_, _, _)
\* mutation: the loops exchanged, the supported list scanned first
FirstSupportedByConfigOrder(languages, supported, default) ==
    IF supported = <<>> THEN default
    ELSE IF MatchSupported(Head(supported), languages) THEN Head(supported)
    ELSE FirstSupportedByConfigOrder(languages, Tail(supported), default)

getPreferredLanguageConfigOrder(cfg, acceptLanguage) ==
    FirstSupportedByConfigOrder(parseAcceptLanguage(acceptLanguage),
                                cfg.Languages, cfg.DefaultLanguage)

getPreferredLanguage(cfg, acceptLanguage) ==
    FirstSupported(parseAcceptLanguage(acceptLanguage),
                   cfg.Languages, cfg.DefaultLanguage)

\* getStrategy: the strategy kind, or "error" for the default branch
getStrategy(cfg) ==
    IF cfg.LanguageStrategy = StrategyHeader THEN "HeaderStrategy"
    ELSE IF cfg.LanguageStrategy = StrategyPath THEN "PathStrategy"
    ELSE IF cfg.LanguageStrategy = StrategyQuery THEN "QueryStrategy"
    ELSE "error"

----------------------------------------------------------------------------
(* Strategies *)

HeaderGetLanguage(req) == HeaderGet(req.Header)

HeaderSetLanguage(req, language) ==
    [req EXCEPT !.Header = HeaderSet(req.Header, language)]

PathGetLanguage(req) ==
    LET segments == Split(req.Path, "/")
    IN IF Len(segments) > 1 /\ Len(segments[2]) = 2 THEN segments[2]
       ELSE EmptyString

\* mutation: the root path is not special-cased
PathSetLanguageNoRoot(req, language) ==
    [req EXCEPT !.Path = Slash \o language \o req.Path]

PathSetLanguage(req, language) ==
    IF req.Path = Slash
    THEN [req EXCEPT !.Path = Slash \o language]
    ELSE [req EXCEPT !.Path = Slash \o language \o req.Path]

QueryGetLanguage(languageParam, req) ==
    ValuesGet(URLQuery(req.RawQuery), languageParam)

QuerySetLanguage(languageParam, req, language) ==
    [req EXCEPT !.RawQuery =
        ValuesEncode(ValuesSet(URLQuery(req.RawQuery), languageParam, language))]

\* Strategy.GetLanguage, dispatched on the strategy kind
GetLanguage(strategy, cfg, req) ==
    IF strategy = "HeaderStrategy" THEN HeaderGetLanguage(req)
    ELSE IF strategy = "PathStrategy" THEN PathGetLanguage(req)
    ELSE QueryGetLanguage(cfg.LanguageParam, req)

\* Strategy.SetLanguage, dispatched on the strategy kind
SetLanguage(strategy, cfg, req, language) ==
    IF strategy = "HeaderStrategy" THEN HeaderSetLanguage(req, language)
    ELSE IF strategy = "PathStrategy" THEN PathSetLanguage(req, language)
    ELSE QuerySetLanguage(cfg.LanguageParam, req, language)

----------------------------------------------------------------------------
(* New and ServeHTTP *)

\* New: "err" when it returns an error, "ok" when it returns the handler
NewResult(cfg) ==
    IF Len(cfg.Languages) = 0 THEN "err"
    ELSE IF cfg.DefaultLanguage = EmptyString THEN "err"
    ELSE IF cfg.LanguageStrategy = StrategyQuery /\ cfg.LanguageParam = "" THEN "err"
    ELSE "ok"

\* mutation: the default language is handled whatever the flag says
NeedsHandlingAlways(cfg, lang) == lang # EmptyString

\* the condition of line 66
NeedsHandling(cfg, lang) ==
    lang # EmptyString /\ (lang # cfg.DefaultLanguage \/ cfg.DefaultLanguageHandling)

\* the condition of line 74
NeedsWrite(languageByRequest, lang) ==
    languageByRequest = EmptyString \/ languageByRequest # lang

NoResponse == [status |-> 0, location |-> <<>>]

\* One call of ServeHTTP on request req: the request it leaves, the response,
\* the calls of the next handler and whether SetLanguage ran.
ServeOutcome(cfg, req) ==
    LET lang == getPreferredLanguage(cfg, HeaderGet(req.Header))
        strategy == getStrategy(cfg)
        forward == [r |-> req, w |-> NoResponse, nextCalls |-> 1,
                    wrote |-> FALSE, lang |-> lang]
    IN IF ~NeedsHandling(cfg, lang) THEN forward
       ELSE IF strategy = "error"
       THEN [forward EXCEPT !.w = [status |-> StatusInternalServerError,
                                   location |-> <<>>],
                            !.nextCalls = 0]
       ELSE IF ~NeedsWrite(GetLanguage(strategy, cfg, req), lang) THEN forward
       ELSE LET req2 == SetLanguage(strategy, cfg, req, lang)
            IN IF cfg.RedirectAfterHandling
               THEN [r |-> req2,
                     w |-> [status |-> StatusFound, location |-> URLString(req2)],
                     nextCalls |-> 0, wrote |-> TRUE, lang |-> lang]
               ELSE [r |-> req2, w |-> NoResponse, nextCalls |-> 1,
                     wrote |-> TRUE, lang |-> lang]

----------------------------------------------------------------------------
(* Inputs *)

LanguageLists == { <<>>, <<En, FrCA, De>>, <<De, En>>, <<EmptyString, En>> }
DefaultLanguages == { EmptyString, En, EnDe }
Strategies == { StrategyHeader, StrategyPath, StrategyQuery, "bogus" }
LanguageParams == { "lg", "" }

Configs ==
    [Languages : LanguageLists,
     DefaultLanguage : DefaultLanguages,
     DefaultLanguageHandling : BOOLEAN,
     LanguageStrategy : Strategies,
     LanguageParam : LanguageParams,
     RedirectAfterHandling : BOOLEAN]

Entries == { En, FrCA, DeQ }

RECURSIVE Join(_)
\* the entries joined by ","
Join(es) ==
    IF es = <<>> THEN <<>>
    ELSE IF Len(es) = 1 THEN es[1]
    ELSE es[1] \o <<",">> \o Join(Tail(es))

\* Accept-Language as sent: absent, or one value of up to MaxEntries entries
HeaderValues ==
    {<<>>} \cup
    { <<Join(es)>> : es \in UNION { [1..n -> Entries] : n \in 0..MaxEntries } }

Paths == { PathRoot, PathAbout, PathDe, PathFrCA }

Queries ==
    { <<>>,
      << [k |-> "lg", v |-> De] >>,
      << [k |-> "z", v |-> One], [k |-> "lg", v |-> FrCA] >> }

NoRequest == [Header |-> <<>>, Path |-> <<>>, RawQuery |-> <<>>]

----------------------------------------------------------------------------
(* The state machine *)

Init ==
    /\ config \in Configs
    /\ handler = "nil"
    /\ active = FALSE
    /\ r = NoRequest
    /\ pre = NoRequest
    /\ sent = <<>>
    /\ w = NoResponse
    /\ nextCalls = 0
    /\ wrote = FALSE
    /\ languageByHeader = EmptyString
    /\ runs = 0
    /\ hops = 0

\* The host constructs the middleware.
New ==
    /\ handler = "nil"
    /\ handler' = NewResult(config)
    /\ UNCHANGED <<config, active, r, pre, sent, w, nextCalls, wrote,
                   languageByHeader, runs, hops>>

\* A client request reaches the middleware.
Request ==
    /\ handler = "ok"
    /\ ~active
    /\ \E h \in HeaderValues, p \in Paths, q \in Queries :
          /\ r' = [Header |-> h, Path |-> p, RawQuery |-> q]
          /\ sent' = h
    /\ active' = TRUE
    /\ pre' = NoRequest
    /\ UNCHANGED <<config, handler, w, nextCalls, wrote, languageByHeader,
                   runs, hops>>

\* One call of ServeHTTP.  A call on a request that an earlier call forwarded
\* is the next handler being another instance with the same configuration.
ServeHTTP ==
    /\ handler = "ok"
    /\ active
    /\ w.status = 0
    /\ runs < MaxRuns
    /\ LET out == ServeOutcome(config, r)
       IN /\ r' = out.r
          /\ w' = out.w
          /\ nextCalls' = out.nextCalls
          /\ wrote' = out.wrote
          /\ languageByHeader' = out.lang
    /\ pre' = r
    /\ runs' = runs + 1
    /\ UNCHANGED <<config, handler, active, sent, hops>>

\* The client follows the redirect: a new request for the Location, with the
\* Accept-Language it always sends.
Follow ==
    /\ active
    /\ w.status = StatusFound
    /\ hops < MaxHops
    /\ r' = [Header |-> sent, Path |-> w.location.Path,
             RawQuery |-> w.location.RawQuery]
    /\ pre' = NoRequest
    /\ w' = NoResponse
    /\ nextCalls' = 0
    /\ wrote' = FALSE
    /\ languageByHeader' = EmptyString
    /\ runs' = 0
    /\ hops' = hops + 1
    /\ UNCHANGED <<config, handler, active, sent>>

Next == New \/ Request \/ ServeHTTP \/ Follow

Spec == Init /\ [][Next]_vars

----------------------------------------------------------------------------
(* Vocabulary of the properties, computed from positions in the string     *)
(* rather than by the code's loops.                                        *)

served == runs >= 1

Recognized == {StrategyHeader, StrategyPath, StrategyQuery}

Supported == { config.Languages[i] : i \in DOMAIN config.Languages }

Positions(s, c) == { i \in 1..Len(s) : s[i] = c }

\* the number of comma-separated entries of header value h
NumEntries(h) == Cardinality(Positions(h, ",")) + 1

\* the position of the k-th comma of h; 0 for k = 0, Len(h) + 1 past the last
CommaAt(h, k) ==
    IF k = 0 THEN 0
    ELSE IF k > Cardinality(Positions(h, ",")) THEN Len(h) + 1
    ELSE CHOOSE i \in Positions(h, ",") :
             Cardinality({ j \in Positions(h, ",") : j < i }) = k - 1

\* the k-th entry of h without its ";" suffix and its surrounding whitespace
HeaderTag(h, k) ==
    LET entry == SubSeq(h, CommaAt(h, k - 1) + 1, CommaAt(h, k) - 1)
        semis == Positions(entry, ";")
        cut == IF semis = {} THEN Len(entry) + 1
               ELSE CHOOSE i \in semis : \A j \in semis : i <= j
        solid == { i \in 1..(cut - 1) : entry[i] \notin {" ", "\t"} }
    IN IF solid = {} THEN <<>>
       ELSE SubSeq(entry,
                   CHOOSE i \in solid : \A j \in solid : i <= j,
                   CHOOSE i \in solid : \A j \in solid : j <= i)

\* the first segment of an absolute path: what lies between its leading "/"
\* and the next "/" (or the end)
FirstSegment(p) ==
    LET later == { i \in 2..Len(p) : p[i] = "/" }
        stop == IF later = {} THEN Len(p) + 1
                ELSE CHOOSE i \in later : \A j \in later : i <= j
    IN SubSeq(p, 2, stop - 1)

\* the value the query string gives the parameter: that of its first pair
\* with this key
FirstValueIs(raw, key, v) ==
    \E i \in DOMAIN raw :
        /\ raw[i].k = key
        /\ raw[i].v = v
        /\ \A j \in 1..(i - 1) : raw[j].k # key

\* the request already carries tag in the channel of the configured strategy
Carries(req, tag) ==
    IF config.LanguageStrategy = StrategyHeader THEN HeaderGet(req.Header) = tag
    ELSE IF config.LanguageStrategy = StrategyPath THEN FirstSegment(req.Path) = tag
    ELSE FirstValueIs(req.RawQuery, config.LanguageParam, tag)

----------------------------------------------------------------------------
(* Properties *)

\* C1: for every configuration with a non-empty supported list and a
\* non-empty default language, whatever its strategy selector, a call of
\* ServeHTTP ends either with the next handler invoked exactly once or with
\* a 302 redirect, and in no other way.
C1_ForwardOrRedirect ==
    served =>
        \/ (nextCalls = 1 /\ w.status = 0)
        \/ (nextCalls = 0 /\ w.status = StatusFound)

\* C2: New produces no instance when the strategy selector is none of
\* "header", "path", "query", so no request is served by such an instance
\* and ServeHTTP never answers 500.
C2_SelectorValidatedAtConstruction ==
    /\ handler = "ok" => config.LanguageStrategy \in Recognized
    /\ w.status # StatusInternalServerError

\* C3: a call of ServeHTTP that performs SetLanguage with
\* RedirectAfterHandling set issues a 302 to the request's URL as it stands
\* after the write and does not invoke the next handler; every other call
\* issues no redirect and invokes the next handler.
C3_RedirectIffWriteAndFlag ==
    served =>
        IF wrote /\ config.RedirectAfterHandling
        THEN w.status = StatusFound /\ w.location = URLString(r) /\ nextCalls = 0
        ELSE w.status # StatusFound /\ nextCalls = 1

\* C4: when DefaultLanguageHandling is false and the resolved language is the
\* default language, ServeHTTP leaves the header, the path and the query
\* string as they were, writes no response and invokes the next handler,
\* whatever the strategy selector.
C4_DefaultLanguageIgnored ==
    (served /\ ~config.DefaultLanguageHandling
            /\ languageByHeader = config.DefaultLanguage)
        => (r = pre /\ w = NoResponse /\ nextCalls = 1)

C4_Witness ==
    /\ served
    /\ ~config.DefaultLanguageHandling
    /\ languageByHeader = config.DefaultLanguage
    /\ config.LanguageStrategy = StrategyPath
    /\ config.RedirectAfterHandling
    /\ HeaderGet(pre.Header) = En
    /\ pre.Path = PathAbout
    /\ nextCalls = 1

\* C5: under each of the three strategies and for every supported tag, a
\* request that already carries the resolved language in the strategy's
\* channel is left unchanged and is not redirected.
C5_NoChangeWhenAlreadyEncoded ==
    (served /\ config.LanguageStrategy \in Recognized
            /\ languageByHeader \in Supported
            /\ Carries(pre, languageByHeader))
        => (r = pre /\ w.status # StatusFound)

\* C6: the resolved language is the first tag of the Accept-Language header,
\* in header order, each entry taken without its ";" suffix and surrounding
\* whitespace, that is a member of the supported list (as a set: the list's
\* order plays no part); it is the default language when no tag is a member.
C6_FirstSupportedInHeaderOrder ==
    served =>
        LET h == HeaderGet(pre.Header)
            hits == { k \in 1..NumEntries(h) : HeaderTag(h, k) \in Supported }
        IN languageByHeader =
               IF hits = {} THEN config.DefaultLanguage
               ELSE HeaderTag(h, CHOOSE k \in hits : \A j \in hits : k <= j)

C6_Witness ==
    /\ served
    /\ HeaderGet(pre.Header) = En \o <<",">> \o DeQ
    /\ config.Languages = <<De, En>>
    /\ languageByHeader = En

\* C7: under every configuration New accepts, a request whose
\* Accept-Language is empty or absent yields an empty candidate sequence and
\* resolves to the default language, so that the resolved language is never
\* the empty string.
C7_EmptyHeaderResolvesToDefault ==
    served =>
        /\ languageByHeader # EmptyString
        /\ HeaderGet(pre.Header) = EmptyString =>
               /\ parseAcceptLanguage(HeaderGet(pre.Header)) = <<>>
               /\ languageByHeader = config.DefaultLanguage

\* C8: under the header strategy without redirect, a second ServeHTTP on the
\* same request object performs no write: the Accept-Language value after
\* two calls is the value after one.
C8_HeaderStrategyIdempotent ==
    (runs = 2 /\ config.LanguageStrategy = StrategyHeader
              /\ ~config.RedirectAfterHandling)
        => (~wrote /\ HeaderGet(r.Header) = HeaderGet(pre.Header))

C10_RedirectedAtMostOnce ==
    (hops >= 1 /\ served) => (w.status = 0 /\ nextCalls = 1)

====
